---- MODULE Spec2Model ----
(***************************************************************************)
(* The score dashboard of team-left: one React view instance, its hook     *)
(* state, the fetch cycles it starts and the derived values it renders.    *)
(*                                                                         *)
(* Four views are modelled, chosen at construction:                        *)
(*   "live"       Home            (part_002:38-189; part_001 and the       *)
(*                                 second file of part_002 have the same   *)
(*                                 fetch/timer/render code)                *)
(*   "total"      TotalScore with the apply button (total/page.tsx)        *)
(*   "totalAuto"  TotalScore with the filter effect (part_003:132-326)     *)
(*   "totalPlain" TotalScore without a filter (part_003:20-110)            *)
(*                                                                         *)
(* Time.  A timestamp string is modelled by the wall-clock reading its     *)
(* fields spell, in seconds (Wall).  Parsing turns a reading into an       *)
(* instant (seconds since the epoch) according to the zone the parser      *)
(* assumes; formatting turns an instant into the reading of a zone.        *)
(***************************************************************************)
EXTENDS Integers, Sequences, FiniteSets

VARIABLES
    view,          \* which component this instance is
    tz,            \* the browser's local UTC offset, in hours
    mounted,       \* the component is mounted
    timer,         \* the setInterval timer is armed
    scoreData,     \* useState<ScoreData[]>([])
    filteredData,  \* useState<ScoreData[]>([])   (total, totalAuto)
    loading,       \* useState(true)
    error,         \* useState<string | null>(null)
    startDate,     \* useState<string>(today)      0 is the empty string
    endDate,       \* useState<string>(today)
    startTime,     \* useState<number>(0)   / timeRange[0]
    endTime,       \* useState<number>(23)  / timeRange[1]
    inflight,      \* the fetch cycles awaiting their response (request numbers)
    nextReq,       \* the number the next fetch cycle gets
    last,          \* history: the most recently completed fetch cycle
    good,          \* history: what the most recent successful cycle installed
                   \*   and the request it answered
    applied        \* history: the filter has run on the current scoreData and range

vars == <<view, tz, mounted, timer, scoreData, filteredData, loading, error,
          startDate, endDate, startTime, endTime, inflight, nextReq,
          last, good, applied>>

---------------------------------------------------------------------------
(* Bounds of the model *)

MaxLen == 2        \* records per response payload
MaxFetch == 2      \* fetch cycles started by one view instance

(* Input alphabets *)

Views == {"live", "total", "totalAuto", "totalPlain"}
TzChoices == {0, 9}                 \* a browser in UTC, a browser in Japan
\* the zones tried for a view: both where record times are compared with a
\* range; where the zone only enters the difference of two local readings
\* (the sort comparator) or not at all, the browser in Japan
TzOf(v) == IF v \in {"total", "totalAuto"} THEN TzChoices ELSE {9}
Today == 2                          \* the day number of new Date() (UTC date)
DateChoices == {0, Today, Today + 1}  \* 0: the date input cleared ("")
HourChoices == {0, 23}              \* positions of the hour sliders (min, max)
ScoreChoices == {-5, 0, 10}

Null == "null"

Wall(day, h, m, s) == day * 86400 + h * 3600 + m * 60 + s

\* created_at readings the API may deliver (naive, UTC without offset)
\* (on a clock in Japan: 23:59:59 of the day before Today, 23:59:59 of Today)
TimeChoices == { Wall(Today - 1, 14, 59, 59), Wall(Today, 14, 59, 59) }

RECURSIVE SeqsUpTo(_, _)
SeqsUpTo(S, n) ==
    IF n = 0 THEN {<<>>}
    ELSE LET shorter == SeqsUpTo(S, n - 1)
         IN  shorter \cup { Append(q, x) : q \in shorter, x \in S }

\* the payloads: data: [{id, created_at, score}, ...], ids unique per record
Payloads ==
    { [i \in 1..Len(q) |-> [id |-> i, created_at |-> q[i][1], score |-> q[i][2]]] :
        q \in SeqsUpTo(TimeChoices \X ScoreChoices, MaxLen) }

\* how a fetch cycle can end
Kinds == {"reject", "notok", "badjson", "status", "ok"}
Responses ==
    { [kind |-> k, data |-> <<>>] : k \in Kinds \ {"ok"} }
      \cup { [kind |-> "ok", data |-> d] : d \in Payloads }

---------------------------------------------------------------------------
(* Date parsing and formatting *)

\* new Date("YYYY-MM-DDTHH:MM[:SS]") and new Date("YYYY/MM/DD HH:MM:SS"):
\* no offset in the string, read in the browser's local zone
ParseLocal(wall) == wall - tz * 3600

\* new Date(`${dateString}Z`): read as UTC
ParseUTC(wall) == wall

\* new Date("...+09:00"): read at the fixed offset
ParseJST(wall) == wall - 9 * 3600

\* Intl.DateTimeFormat("ja-JP", {timeZone: "Asia/Tokyo", ...}).format:
\* the reading of the instant on a clock in Japan
formatDateToJST(dateString) == ParseUTC(dateString) + 9 * 3600

---------------------------------------------------------------------------
(* Sequences *)

\* the comparator of result.data.sort: negative, zero or positive
SortCompare(a, b) == ParseLocal(a.created_at) - ParseLocal(b.created_at)

RECURSIVE InsertSorted(_, _)
InsertSorted(s, x) ==
    IF s = <<>> THEN <<x>>
    ELSE IF SortCompare(x, Head(s)) < 0 THEN <<x>> \o s
         ELSE <<Head(s)>> \o InsertSorted(Tail(s), x)

\* Array.prototype.sort with that comparator (stable)
RECURSIVE SortData(_)

\* a fetchData that installs result.data unsorted
SortData_None(s) == s

SortData(s) ==
    IF s = <<>> THEN <<>>
    ELSE InsertSorted(SortData(SubSeq(s, 1, Len(s) - 1)), s[Len(s)])

---------------------------------------------------------------------------
(* Error messages.  The two thrown by fetchData are literals of the source *)
(* (page.tsx:37, page.tsx:44); the other two are the runtime's: the         *)
(* TypeError of a rejected fetch and the SyntaxError of response.json().   *)

MsgFetchFailed == "failed to fetch the data"              \* !response.ok
MsgBadStatus == "the API response is not normal"          \* status !== "OK"
MsgNetwork == "TypeError: Failed to fetch"
MsgParse == "SyntaxError: Unexpected token"

\* the message the catch block hands to setError
ErrorOf(resp) ==
    CASE resp.kind = "reject" -> MsgNetwork
      [] resp.kind = "notok" -> MsgFetchFailed
      [] resp.kind = "badjson" -> MsgParse
      [] OTHER -> MsgBadStatus


\* a fetchData that does not look at result.status
Succeeds_AnyStatus(resp) == resp.kind \in {"ok", "status"}

\* fetchData reaches setScoreData: response.ok and result.status === "OK"
Succeeds(resp) == resp.kind = "ok"

\* the value fetchData passes to setScoreData
Installed(data) == IF view = "live" THEN SortData(data) ELSE data

---------------------------------------------------------------------------
(* The range filter *)

\* if (startDate && endDate)
DatesSet == startDate # 0 /\ endDate # 0


\* a predicate that joins the two comparisons with ||
InRangeButton_Or(item, sd, st, ed, et) ==
    LET createdAt == ParseLocal(item.created_at)
        start == ParseLocal(Wall(sd, st, 0, 0))
        end == ParseLocal(Wall(ed, et, 59, 0))
    IN  createdAt >= start \/ createdAt <= end

\* applyDateFilter's predicate (page.tsx:62-71)
InRangeButton(item, sd, st, ed, et) ==
    LET createdAt == ParseLocal(item.created_at)
        start == ParseLocal(Wall(sd, st, 0, 0))
        end == ParseLocal(Wall(ed, et, 59, 0))
    IN  createdAt >= start /\ createdAt <= end

\* the filter effect's predicate (part_003:192-201)
InRangeEffect(item, sd, st, ed, et) ==
    LET createdAt == ParseLocal(formatDateToJST(item.created_at))
        start == ParseJST(Wall(sd, st, 0, 0))
        end == ParseJST(Wall(ed, et, 59, 59))
    IN  createdAt >= start /\ createdAt <= end

FilterButton(data, sd, st, ed, et) ==
    SelectSeq(data, LAMBDA item : InRangeButton(item, sd, st, ed, et))

FilterEffect(data, sd, st, ed, et) ==
    SelectSeq(data, LAMBDA item : InRangeEffect(item, sd, st, ed, et))

\* filteredData after the filter effect of totalAuto has run on the given
\* state (it runs after every commit that changed one of its dependencies)
AfterEffect(data, prev, sd, st, ed, et) ==
    IF sd # 0 /\ ed # 0 THEN FilterEffect(data, sd, st, ed, et) ELSE prev

---------------------------------------------------------------------------
(* Derived values of a render *)

\* the reduce of totalData, left to right from {fun: 0, tired: 0}
RECURSIVE Reduce(_, _)
Reduce(acc, s) ==
    IF s = <<>> THEN acc
    ELSE LET item == Head(s)
             next == IF item.score >= 0
                     THEN [acc EXCEPT !.fun = @ + item.score]
                     ELSE [acc EXCEPT !.tired = @ + (IF item.score < 0 THEN -item.score ELSE item.score)]
         IN  Reduce(next, Tail(s))

\* what the reduce runs over: filteredData, or scoreData in totalPlain
TotalSource == IF view = "totalPlain" THEN scoreData ELSE filteredData


\* a reduce that forgets Math.abs
totalData_NoAbs ==
    LET RECURSIVE Sum(_, _)
        Sum(acc, s) ==
            IF s = <<>> THEN acc
            ELSE Sum(IF Head(s).score >= 0
                     THEN [acc EXCEPT !.fun = @ + Head(s).score]
                     ELSE [acc EXCEPT !.tired = @ + Head(s).score], Tail(s))
    IN  Sum([fun |-> 0, tired |-> 0], TotalSource)

totalData == Reduce([fun |-> 0, tired |-> 0], TotalSource)


\* a series split that sends score 0 to the fun series
funData_ZeroIsFun ==
    [i \in 1..Len(scoreData) |->
        IF scoreData[i].score >= 0 THEN {scoreData[i].score} ELSE {}]

\* the two series of the live chart; {} is null, {v} the number v
funData ==
    [i \in 1..Len(scoreData) |->
        IF scoreData[i].score > 0 THEN {scoreData[i].score} ELSE {}]

tiredData ==
    [i \in 1..Len(scoreData) |->
        IF scoreData[i].score < 0 THEN {-scoreData[i].score} ELSE {}]

\* the latest records list: scoreData.slice(-5).reverse()
LatestRecords ==
    LET n == Len(scoreData)
        k == IF n < 5 THEN n ELSE 5
    IN  [i \in 1..k |-> scoreData[n + 1 - i]]


\* a loading test that drops the loading flag
Render_NoFlag ==
    IF ~mounted THEN "none"
    ELSE IF Len(scoreData) = 0 THEN "loading"
    ELSE IF error # Null THEN "error"
    ELSE "main"

\* which branch of the component's return is rendered
Render ==
    IF ~mounted THEN "none"
    ELSE IF loading /\ Len(scoreData) = 0 THEN "loading"
    ELSE IF error # Null THEN "error"
    ELSE "main"

---------------------------------------------------------------------------
(* The state machine *)

NoFetch == [kind |-> "none", data |-> <<>>]

\* the component as constructed: the initial values of its useState hooks
Init ==
    /\ view \in Views
    /\ tz \in TzOf(view)
    /\ mounted = FALSE
    /\ timer = FALSE
    /\ scoreData = <<>>
    /\ filteredData = <<>>
    /\ loading = TRUE
    /\ error = Null
    /\ startDate = Today
    /\ endDate = Today
    /\ startTime = 0
    /\ endTime = 23
    /\ inflight = {}
    /\ nextReq = 1
    /\ last = NoFetch
    /\ good = [any |-> FALSE, data |-> <<>>, req |-> 0]
    /\ applied = FALSE

\* fetchData up to its first await: one more request is in flight
StartFetch ==
    /\ inflight' = inflight \cup {nextReq}
    /\ nextReq' = nextReq + 1

\* the mount effect: fetchData(), and in the live view setInterval
\* (the filter effect of totalAuto also runs, over the empty scoreData)
Mount ==
    /\ ~mounted
    /\ nextReq = 1
    /\ mounted' = TRUE
    /\ StartFetch
    /\ timer' = (view = "live")
    /\ applied' = (view = "totalAuto" /\ DatesSet)
    /\ UNCHANGED <<view, tz, scoreData, filteredData, loading, error,
                   startDate, endDate, startTime, endTime, last, good>>

\* an interval callback that gives up once a fetch has failed
Tick_StopsAfterError ==
    /\ timer
    /\ error = Null
    /\ nextReq <= MaxFetch
    /\ StartFetch
    /\ UNCHANGED <<view, tz, mounted, timer, scoreData, filteredData, loading,
                   error, startDate, endDate, startTime, endTime, last, good,
                   applied>>

\* the interval callback
Tick ==
    /\ timer
    /\ nextReq <= MaxFetch
    /\ StartFetch
    /\ UNCHANGED <<view, tz, mounted, timer, scoreData, filteredData, loading,
                   error, startDate, endDate, startTime, endTime, last, good,
                   applied>>

\* a cleanup that leaves the interval running
Unmount_KeepsTimer ==
    /\ mounted
    /\ mounted' = FALSE
    /\ UNCHANGED <<view, tz, timer, scoreData, filteredData, loading, error,
                   startDate, endDate, startTime, endTime, inflight, nextReq,
                   last, good, applied>>

\* the cleanup of the mount effect: clearInterval(intervalId)
Unmount ==
    /\ mounted
    /\ mounted' = FALSE
    /\ timer' = FALSE
    /\ UNCHANGED <<view, tz, scoreData, filteredData, loading, error,
                   startDate, endDate, startTime, endTime, inflight, nextReq,
                   last, good, applied>>

\* filteredData once a successful fetchData has committed: setFilteredData
\* (result.data), then, in totalAuto while mounted, the filter effect that
\* the new scoreData triggers
FilteredAfterLoad(data) ==
    CASE view = "total" -> data
      [] view = "totalAuto" ->
            IF mounted
            THEN AfterEffect(data, data, startDate, startTime, endDate, endTime)
            ELSE data
      [] OTHER -> filteredData


\* a catch block that also clears the record set
ScoreAfter_Clears(resp) ==
    IF Succeeds(resp) THEN Installed(resp.data) ELSE <<>>

\* scoreData, filteredData and error at the end of fetchData for response resp
ScoreAfter(resp) ==
    IF Succeeds(resp) THEN Installed(resp.data) ELSE scoreData

FilteredAfter(resp) ==
    IF Succeeds(resp) THEN FilteredAfterLoad(resp.data) ELSE filteredData

\* a fetchData that clears the error when it succeeds
ErrorAfter_ClearsOnSuccess(resp) ==
    IF Succeeds(resp) THEN Null ELSE ErrorOf(resp)

ErrorAfter(resp) ==
    IF Succeeds(resp) THEN error ELSE ErrorOf(resp)

\* fetchData from its first await to the end of its finally block, for the
\* response resp of request r
FetchComplete(r, resp) ==
    /\ r \in inflight
    /\ inflight' = inflight \ {r}
    /\ scoreData' = ScoreAfter(resp)
    /\ filteredData' = FilteredAfter(resp)
    /\ error' = ErrorAfter(resp)
    /\ loading' = FALSE
    /\ last' = [kind |-> resp.kind, data |-> resp.data]
    /\ good' = IF resp.kind = "ok"
               THEN [any |-> TRUE, data |-> scoreData', req |-> r]
               ELSE good
    /\ applied' = IF resp.kind = "ok"
                  THEN view = "totalAuto" /\ mounted /\ DatesSet
                  ELSE applied
    /\ UNCHANGED <<view, tz, mounted, timer, startDate, endDate, startTime,
                   endTime, nextReq>>

\* the range controls exist only in the main branch of the two filter views
ControlsShown == view \in {"total", "totalAuto"} /\ Render = "main"


\* a filter effect whose dependency list lacks the range
FilteredAfterRange_NoDeps(sd, st, ed, et) == filteredData

\* filteredData after a range input changed to the given range
FilteredAfterRange(sd, st, ed, et) ==
    IF view = "totalAuto"
    THEN AfterEffect(scoreData, filteredData, sd, st, ed, et)
    ELSE filteredData

\* a range input changed, the range is now (sd, st, ed, et)
SetRange(sd, st, ed, et) ==
    /\ ControlsShown
    /\ startDate' = sd
    /\ startTime' = st
    /\ endDate' = ed
    /\ endTime' = et
    /\ filteredData' = FilteredAfterRange(sd, st, ed, et)
    /\ applied' = (view = "totalAuto" /\ sd # 0 /\ ed # 0)
    /\ UNCHANGED <<view, tz, mounted, timer, scoreData, loading, error,
                   inflight, nextReq, last, good>>

\* onChange of the start date input
SetStartDate(d) ==
    /\ d # startDate
    /\ SetRange(d, startTime, endDate, endTime)

\* onChange of the end date input
SetEndDate(d) ==
    /\ d # endDate
    /\ SetRange(startDate, startTime, d, endTime)

\* onChange of the start hour slider
SetStartTime(h) ==
    /\ h # startTime
    /\ SetRange(startDate, h, endDate, endTime)

\* onChange of the end hour slider
SetEndTime(h) ==
    /\ h # endTime
    /\ SetRange(startDate, startTime, endDate, h)

\* onClick of the apply button (page.tsx)
applyDateFilter ==
    /\ view = "total"
    /\ Render = "main"
    /\ filteredData' =
          IF DatesSet
          THEN FilterButton(scoreData, startDate, startTime, endDate, endTime)
          ELSE filteredData
    /\ applied' = (DatesSet \/ applied)
    /\ UNCHANGED <<view, tz, mounted, timer, scoreData, loading, error,
                   startDate, endDate, startTime, endTime, inflight, nextReq,
                   last, good>>

Next ==
    \/ Mount
    \/ Tick
    \/ Unmount
    \/ \E r \in inflight, resp \in Responses : FetchComplete(r, resp)
    \/ \E d \in DateChoices : SetStartDate(d)
    \/ \E d \in DateChoices : SetEndDate(d)
    \/ \E h \in HourChoices : SetStartTime(h)
    \/ \E h \in HourChoices : SetEndTime(h)
    \/ applyDateFilter

Spec == Init /\ [][Next]_vars

---------------------------------------------------------------------------
(* Properties *)

TransportKinds == {"reject", "notok", "badjson"}
FailureKinds == TransportKinds \cup {"status"}
TransportMessages == {MsgNetwork, MsgFetchFailed, MsgParse}

\* the step completes a fetch cycle: a request leaves the set in flight
Completes == inflight' # inflight /\ inflight' \subseteq inflight

\* C1: the record set is replaced only by a fetch cycle whose transport
\* succeeded and whose payload status is "OK"; a cycle that ends in a
\* transport failure or in another status leaves the record set as it was and
\* sets an error message, and the message of a transport failure is never the
\* message of an unexpected status.
C1_ReplacedOnlyOnSuccess ==
    [][ /\ (scoreData' # scoreData => Completes /\ last'.kind = "ok")
        /\ (Completes /\ last'.kind \in FailureKinds =>
              /\ scoreData' = scoreData
              /\ error' # Null)
        /\ (Completes /\ last'.kind \in TransportKinds =>
              error' \in TransportMessages /\ error' # MsgBadStatus)
        /\ (Completes /\ last'.kind = "status" =>
              error' = MsgBadStatus /\ error' \notin TransportMessages)
      ]_vars

\* a status failure arrived after data had been loaded: data kept, error set
C1_Witness ==
    /\ last.kind = "status"
    /\ good.any
    /\ Len(scoreData) > 0
    /\ error = MsgBadStatus

RECURSIVE IsSubSeq(_, _)
IsSubSeq(a, b) ==
    IF a = <<>> THEN TRUE
    ELSE IF b = <<>> THEN FALSE
    ELSE IF Head(a) = Head(b) THEN IsSubSeq(Tail(a), Tail(b))
    ELSE IsSubSeq(a, Tail(b))

C3_Claimed ==
    (view = "live" /\ mounted /\ good.any /\ Len(scoreData) > 0
        /\ last.kind \in FailureKinds)
        => Render = "main"

\* C4: the loading indicator is rendered only while no fetch cycle has
\* completed, successfully or not; so never after a success, and never again
\* once any cycle has completed.
C4_LoadingOnlyBeforeFirstCompletion ==
    Render = "loading" => (last = NoFetch /\ ~good.any)

\* the first fetch failed, nothing is loaded, and the render is not "loading"
C4_Witness ==
    /\ mounted
    /\ last.kind \in FailureKinds
    /\ ~good.any
    /\ Len(scoreData) = 0
    /\ Render = "error"

Abs(x) == IF x < 0 THEN -x ELSE x

\* the sum of a sequence of numbers
RECURSIVE SumSeq(_)
SumSeq(q) == IF q = <<>> THEN 0 ELSE Head(q) + SumSeq(Tail(q))

\* C5: in the live view the two series are as long as the record set;
\* funData[i] is the score where it is positive and null otherwise,
\* tiredData[i] is the absolute value of the score where it is negative and
\* null otherwise; the two are never both present at an index, and a record
\* with score 0 is absent from both.
C5_SeriesSplit ==
    view = "live" =>
        /\ DOMAIN funData = 1..Len(scoreData)
        /\ DOMAIN tiredData = 1..Len(scoreData)
        /\ \A i \in 1..Len(scoreData) :
              LET sc == scoreData[i].score
              IN  /\ funData[i] = (IF sc > 0 THEN {sc} ELSE {})
                  /\ tiredData[i] = (IF sc < 0 THEN {Abs(sc)} ELSE {})
                  /\ (funData[i] = {} \/ tiredData[i] = {})
                  /\ (sc = 0 => funData[i] = {} /\ tiredData[i] = {})

\* a live record set holding a zero score and a negative score
C5_Witness ==
    /\ view = "live"
    /\ \E i, j \in 1..Len(scoreData) :
          scoreData[i].score = 0 /\ scoreData[j].score < 0

\* the range the controls show, as instants: the dates and hours read on a
\* clock at UTC+9, from second 0 of the start hour to second 59 of minute 59
\* of the end hour
RangeStart == ParseJST(Wall(startDate, startTime, 0, 0))
RangeEnd == ParseJST(Wall(endDate, endTime, 59, 59))

\* the instant a record was created: created_at read as UTC
Instant(item) == ParseUTC(item.created_at)

InShownRange(item) == RangeStart <= Instant(item) /\ Instant(item) <= RangeEnd

\* C6 as claimed, for the view with the filter effect: fun is the sum of the
\* scores >= 0, and tired the sum of the absolute values of the scores < 0,
\* of exactly the records whose created_at instant lies in the closed range.
C6_Claimed ==
    (view = "totalAuto" /\ mounted /\ DatesSet) =>
        /\ totalData.fun =
              SumSeq([i \in 1..Len(scoreData) |->
                        IF InShownRange(scoreData[i]) /\ scoreData[i].score >= 0
                        THEN scoreData[i].score ELSE 0])
        /\ totalData.tired =
              SumSeq([i \in 1..Len(scoreData) |->
                        IF InShownRange(scoreData[i]) /\ scoreData[i].score < 0
                        THEN Abs(scoreData[i].score) ELSE 0])
        /\ totalData.fun >= 0
        /\ totalData.tired >= 0

\* the start of the range is later than its end
StartAfterEnd ==
    \/ startDate > endDate
    \/ (startDate = endDate /\ startTime > endTime)

ZeroTotals == [fun |-> 0, tired |-> 0]

\* C7: when the filter has been applied to a range whose start is later than
\* its end (start date after end date, or the same date with start hour after
\* end hour), the filtered set is empty and the totals are {fun: 0, tired: 0},
\* whatever the record set holds, and no error is set.
C7_InvertedRangeIsEmpty ==
    (view \in {"total", "totalAuto"} /\ applied /\ DatesSet /\ StartAfterEnd) =>
        /\ filteredData = <<>>
        /\ totalData = ZeroTotals
        /\ error = Null

\* the apply button was clicked on an inverted range over a non-empty record set
C7_Witness ==
    /\ view = "total"
    /\ applied
    /\ DatesSet
    /\ StartAfterEnd
    /\ Len(scoreData) = MaxLen
    /\ filteredData = <<>>

\* C8: when no record is filtered out, fun + tired is the sum of the absolute
\* values of all the scores of the record set.
C8_UnfilteredTotal ==
    (view \in {"total", "totalAuto", "totalPlain"} /\ TotalSource = scoreData) =>
        totalData.fun + totalData.tired =
            SumSeq([i \in 1..Len(scoreData) |-> Abs(scoreData[i].score)])

\* an unfiltered record set with a negative and a positive score
C8_Witness ==
    /\ view \in {"total", "totalAuto", "totalPlain"}
    /\ TotalSource = scoreData
    /\ \E i, j \in 1..Len(scoreData) :
          scoreData[i].score < 0 /\ scoreData[j].score > 0

\* the records the view's own filter keeps for the range the controls show
ViewFilter ==
    IF view = "totalAuto"
    THEN FilterEffect(scoreData, startDate, startTime, endDate, endTime)
    ELSE FilterButton(scoreData, startDate, startTime, endDate, endTime)

IsSorted(s) ==
    \A i \in 1..(Len(s) - 1) : ParseUTC(s[i].created_at) <= ParseUTC(s[i + 1].created_at)

\* the same records, each once (ids are unique within a payload)
SameRecords(a, b) ==
    /\ Len(a) = Len(b)
    /\ { a[i] : i \in 1..Len(a) } = { b[i] : i \in 1..Len(b) }

\* C10 as claimed: after a successful fetch, in every view, the record set is
\* the records of that response, ascending by created_at.
C10_Claimed ==
    last.kind = "ok" => SameRecords(scoreData, last.data) /\ IsSorted(scoreData)

\* C10 amended: after a successful fetch the record set is exactly the records
\* of that response and nothing of the previous record set; in the live view
\* it is ascending by created_at, in the totals views it is in the order of
\* the response, which fetchData there does not sort.
C10_WholesaleAndSortedInLive ==
    last.kind = "ok" =>
        /\ SameRecords(scoreData, last.data)
        /\ (view = "live" => IsSorted(scoreData))
        /\ (view # "live" => scoreData = last.data)

\* a live fetch whose payload arrived out of order
C10_Witness ==
    /\ view = "live"
    /\ last.kind = "ok"
    /\ ~IsSorted(last.data)
    /\ scoreData # last.data

---------------------------------------------------------------------------
(* Timer, overlap and error state (live view) *)

\* the view has been torn down: it is unmounted and its mount effect has run
\* (the mount effect started request 1)
TornDown == ~mounted /\ nextReq > 1

\* C11: once the view is torn down the interval is cancelled: from the unmount
\* on, the timer is not armed, no interval callback runs and no fetch cycle is
\* started; the only thing that can still happen is that cycles already in
\* flight complete, in any order.
C11_NoFetchAfterUnmount ==
    [][ /\ (mounted /\ ~mounted' => ~timer')
        /\ (TornDown =>
              /\ ~mounted' /\ ~timer'
              /\ nextReq' = nextReq
              /\ inflight' \subseteq inflight)
      ]_vars

\* the live view was torn down while its first fetch was in flight; the fetch
\* has since completed, and a further tick (still within the bound on fetch
\* cycles) has not happened and cannot
C11_Witness ==
    /\ view = "live"
    /\ TornDown
    /\ last # NoFetch
    /\ inflight = {}
    /\ nextReq <= MaxFetch
    /\ ~timer

\* C12 as claimed: in the live view a response that arrives after the
\* response of a later issued fetch has been applied does not overwrite the
\* record set: the request whose data is held is never followed by an older
\* one, so the data held is that of the most recently issued fetch among
\* those that completed successfully.
C12_Claimed ==
    [][ view = "live" => good'.req >= good.req ]_vars

\* a step that starts a fetch cycle
Starts == nextReq' # nextReq

\* a step of the interval callback: the timer is armed before and after, one
\* more request is in flight, and the hook state is as it was
TickStep ==
    /\ timer /\ timer' /\ mounted /\ mounted'
    /\ view = "live"
    /\ UNCHANGED <<scoreData, filteredData, loading, error>>

\* C13: a fetch cycle is started only by the mount effect or by an interval
\* callback, one per step, and never by the completion of a cycle, failed or
\* not; in the live view the interval is armed for as long as the view is
\* mounted and its callback can always run, whatever error is held; in the
\* totals views the mount starts one cycle and no other is ever started.
C13_OnlyMountAndTickFetch ==
    /\ [][ /\ (Starts =>
                 /\ nextReq' = nextReq + 1
                 /\ inflight' = inflight \cup {nextReq}
                 /\ ((~mounted /\ mounted' /\ nextReq = 1) \/ TickStep))
           /\ (Completes => ~Starts)
         ]_vars
    /\ [] /\ (view = "live" /\ mounted => timer)
          /\ (view = "live" /\ mounted /\ nextReq <= MaxFetch => ENABLED Tick)
          /\ (view # "live" => ~timer /\ nextReq = (IF mounted \/ TornDown THEN 2 ELSE 1))

\* in the live view the mount fetch has failed, nothing else is in flight but
\* the fetch of the tick that followed, and the view is showing the error
C13_Witness ==
    /\ view = "live"
    /\ mounted
    /\ last.kind \in FailureKinds
    /\ ~good.any
    /\ error # Null
    /\ nextReq = 3
    /\ inflight = {2}

\* C14: the error state is sticky: no step sets error back to null, and once
\* an error is held every render of the mounted view is the error banner,
\* also after a later fetch has succeeded and replaced the record set.
C14_ErrorIsSticky ==
    [][ /\ (error # Null => error' # Null)
        /\ (error' # Null /\ mounted' => Render' = "error")
      ]_vars

\* a fetch failed, a later one succeeded and loaded records, and the render is
\* still the error banner
C14_Witness ==
    /\ mounted
    /\ error # Null
    /\ last.kind = "ok"
    /\ good.any
    /\ Len(scoreData) > 0
    /\ Render = "error"

====
